---- MODULE Spec2Model ----
(***************************************************************************)
(* Model of @bedrock-core/network: the NetworkManager (createNode,         *)
(* removeNode, updateNodeData, getNode, direct data replacement through    *)
(* the node handle) and its handshake evaluator, over the directed graph   *)
(* store (graph-data-structure's Graph: a node set plus an adjacency set   *)
(* per node).                                                              *)
(*                                                                         *)
(* A node is the record [id, data, rules]; ids identify node objects (the  *)
(* manager never holds two present nodes with one id).  An edge is the     *)
(* pair <<source id, target id>>.  Rule predicates are closures in the     *)
(* program; here each is a tag interpreted by Match / TargetFilter.        *)
(***************************************************************************)
EXTENDS Integers, Sequences, FiniteSets, TLC

VARIABLES nodes, edges, result

\* the store the manager holds in its readonly field network
VARIABLE network

\* one bfs call: its arguments, its position and its locals
VARIABLES pc, call, adjOrder, visited, order, queue, current, calls

bfsVars == <<pc, call, adjOrder, visited, order, queue, current, calls>>

vars == <<nodes, edges, result, bfsVars, network>>

(***************************** bounds and inputs ***************************)

\* payloads are the integers 0..MaxData
MaxData == 1
\* the maxDepth options given to bfs are 0..MaxDepth
MaxDepth == 1
\* longest rule list given to a node in SpecHandshake
MaxRules == 2
\* most edges wired by hand between the four nodes of SpecDepth
MaxWired == 3

\* the node ids the callers use
NodeIds == {"a", "b", "c"}

\* the empty string stands for an empty or missing id (both are falsy)
EmptyId == ""

IdInputs == NodeIds \cup {EmptyId}

Data == 0..MaxData

(********************************* rules ***********************************)

Outgoing == "outgoing"
Incoming == "incoming"
Both == "both"
\* a rule object with no direction property
NoDirection == "undefined"

Rule(dir, m, f) == [direction |-> dir, match |-> m, targetFilter |-> f]

\* rule.match(selfData, otherData), by the tag of the closure
Match(rule, self, other) ==
  CASE rule.match = "always" -> TRUE
    [] rule.match = "same" -> self = other
    [] rule.match = "gt" -> self > other

\* rule.targetFilter is present
HasTargetFilter(rule) == rule.targetFilter # "none"

\* rule.targetFilter(otherData), by the tag of the closure
TargetFilter(rule, other) ==
  CASE rule.targetFilter = "odd" -> other % 2 = 1
    [] rule.targetFilter = "even" -> other % 2 = 0

(*************************** the graph store *******************************)
(* Graph<Node> of graph-data-structure, as the manager and the tests use   *)
(* it: nodes is a Set, adjacent(n) is the Set of targets of n's outgoing   *)
(* edges.                                                                  *)

\* network.addNode(node)
Graph_addNode(ns, node) == ns \cup {node}

\* network.addEdge(source, target): Set semantics, no parallel edge
Graph_addEdge(e, source, target) == e \cup {<<source, target>>}

\* network.removeEdge(source, target)
Graph_removeEdge(e, source, target) == e \ {<<source, target>>}

\* network.adjacent(node): the targets of node's outgoing edges
Graph_adjacent(e, id) == {p[2] : p \in {q \in e : q[1] = id}}

\* network.removeNode(node), nodes part
Graph_removeNode_nodes(ns, node) == ns \ {node}

\* network.removeNode(node), edges part: outgoing and ingoing edges go
Graph_removeNode_edges(e, id) == {p \in e : p[1] # id /\ p[2] # id}

(*************************** handshake evaluator ***************************)

\* the value findNode and getNode return when no node has the id
Undefined == [id |-> "undefined"]

\* sRule.direction ?? RuleDirection.Both
\* faulty variant: the direction of a rule is not consulted
DirectionOf_ignored(rule) == Both

DirectionOf(rule) ==
  IF rule.direction = NoDirection THEN Both ELSE rule.direction

RECURSIVE AcceptLoop_filtered(_, _, _)
\* faulty variant: the accepting side consults its targetFilter too
AcceptLoop_filtered(source, target, j) ==
  IF j > Len(target.rules) THEN FALSE
  ELSE LET tRule == target.rules[j]
           tDir == DirectionOf(tRule)
       IN IF tDir = Outgoing THEN AcceptLoop_filtered(source, target, j + 1)
          ELSE IF HasTargetFilter(tRule) /\ ~TargetFilter(tRule, source.data)
               THEN AcceptLoop_filtered(source, target, j + 1)
          ELSE IF ~Match(tRule, target.data, source.data)
               THEN AcceptLoop_filtered(source, target, j + 1)
          ELSE TRUE

RECURSIVE AcceptLoop(_, _, _)
\* the inner loop of tryHandshake, from target.rules[j] on
AcceptLoop(source, target, j) ==
  IF j > Len(target.rules) THEN FALSE
  ELSE LET tRule == target.rules[j]
           tDir == DirectionOf(tRule)
       IN IF tDir = Outgoing THEN AcceptLoop(source, target, j + 1)
          ELSE IF ~Match(tRule, target.data, source.data)
               THEN AcceptLoop(source, target, j + 1)
          ELSE TRUE

RECURSIVE InitiateLoop_break(_, _, _)
\* faulty variant: the first initiating rule whose match fails ends the
\* handshake instead of passing on to the next rule
InitiateLoop_break(source, target, i) ==
  IF i > Len(source.rules) THEN FALSE
  ELSE LET sRule == source.rules[i]
           sDir == DirectionOf(sRule)
       IN IF sDir = Incoming THEN InitiateLoop_break(source, target, i + 1)
          ELSE IF HasTargetFilter(sRule) /\ ~TargetFilter(sRule, target.data)
               THEN InitiateLoop_break(source, target, i + 1)
          ELSE IF ~Match(sRule, source.data, target.data)
               THEN FALSE
          ELSE IF AcceptLoop(source, target, 1) THEN TRUE
          ELSE InitiateLoop_break(source, target, i + 1)

RECURSIVE InitiateLoop(_, _, _)
\* the outer loop of tryHandshake, from source.rules[i] on
InitiateLoop(source, target, i) ==
  IF i > Len(source.rules) THEN FALSE
  ELSE LET sRule == source.rules[i]
           sDir == DirectionOf(sRule)
       IN IF sDir = Incoming THEN InitiateLoop(source, target, i + 1)
          ELSE IF HasTargetFilter(sRule) /\ ~TargetFilter(sRule, target.data)
               THEN InitiateLoop(source, target, i + 1)
          ELSE IF ~Match(sRule, source.data, target.data)
               THEN InitiateLoop(source, target, i + 1)
          ELSE IF AcceptLoop(source, target, 1) THEN TRUE
          ELSE InitiateLoop(source, target, i + 1)

tryHandshake(source, target) == InitiateLoop(source, target, 1)

(****************************** the manager ********************************)

\* an argument left undefined; also the field before the constructor ran
NoNetwork == [class |-> "undefined", object |-> "undefined"]

\* new networkClass(), or new Network<T>() for class "Network"
NewNetwork(class) == [class |-> class, object |-> "created"]

\* an instance of class that the caller made and passes in
Supplied(class) == [class |-> class, object |-> "supplied"]

\* faulty variant: a supplied class wins over a supplied instance
StoreFor_classFirst(networkClass, supplied) ==
  IF networkClass # "undefined" THEN NewNetwork(networkClass)
  ELSE IF supplied # NoNetwork THEN supplied
  ELSE NewNetwork("Network")

\* network ?? (networkClass ? new networkClass() : new Network<T>())
StoreFor(networkClass, supplied) ==
  IF supplied # NoNetwork THEN supplied
  ELSE IF networkClass # "undefined" THEN NewNetwork(networkClass)
  ELSE NewNetwork("Network")

findNode(id) ==
  IF \E n \in nodes : n.id = id
  THEN CHOOSE n \in nodes : n.id = id
  ELSE Undefined

RECURSIVE Graph_nodes(_)
\* network.nodes as the for-of loops see it: one enumeration of the Set
Graph_nodes(ns) ==
  IF ns = {} THEN <<>>
  ELSE LET n == CHOOSE x \in ns : TRUE
       IN <<n>> \o Graph_nodes(ns \ {n})

\* faulty variant: a successful handshake inserts the reverse edge as well
SweepBody_bidirectional(e, node, other) ==
  LET e1 == IF tryHandshake(node, other)
            THEN Graph_addEdge(Graph_addEdge(e, node.id, other.id),
                               other.id, node.id)
            ELSE e
  IN IF tryHandshake(other, node)
     THEN Graph_addEdge(e1, other.id, node.id) ELSE e1

\* one turn of the sweep loop: the two independent handshakes of a pair
SweepBody(e, node, other) ==
  LET e1 == IF tryHandshake(node, other)
            THEN Graph_addEdge(e, node.id, other.id) ELSE e
  IN IF tryHandshake(other, node)
     THEN Graph_addEdge(e1, other.id, node.id) ELSE e1

RECURSIVE Sweep_break(_, _, _, _)
\* faulty variant: the loop ends at the first other node that received an edge
Sweep_break(e, node, listed, k) ==
  IF k > Len(listed) THEN e
  ELSE IF listed[k] = node THEN Sweep_break(e, node, listed, k + 1)
  ELSE IF SweepBody(e, node, listed[k]) # e THEN SweepBody(e, node, listed[k])
  ELSE Sweep_break(e, node, listed, k + 1)

RECURSIVE Sweep_self(_, _, _, _)
\* faulty variant: the node itself is not skipped
Sweep_self(e, node, listed, k) ==
  IF k > Len(listed) THEN e
  ELSE Sweep_self(SweepBody(e, node, listed[k]), node, listed, k + 1)

RECURSIVE Sweep(_, _, _, _)
\* for (const other of this.network.nodes), from listed[k] on
Sweep(e, node, listed, k) ==
  IF k > Len(listed) THEN e
  ELSE IF listed[k] = node THEN Sweep(e, node, listed, k + 1)
  ELSE Sweep(SweepBody(e, node, listed[k]), node, listed, k + 1)

Ok(op, id, value) == [op |-> op, id |-> id, error |-> "none", value |-> value]

Thrown(op, id, msg) == [op |-> op, id |-> id, error |-> msg, value |-> Undefined]

\* new NetworkManager(networkClass, supplied): the field is assigned once;
\* nodes and edges are the content of the store the manager then holds,
\* that of the supplied instance or that of a fresh (empty) one
constructor(networkClass, supplied) ==
  /\ network = NoNetwork
  /\ network' = StoreFor(networkClass, supplied)
  /\ IF network'.object = "supplied"
     THEN UNCHANGED <<nodes, edges>>
     ELSE nodes' = {} /\ edges' = {}
  /\ result' = Ok("new", EmptyId, Undefined)

\* faulty variant: the node is added to the store before the duplicate check
createNode_lateCheck(id, data, rules) ==
  IF id = EmptyId
  THEN /\ result' = Thrown("createNode", id, "Id is required")
       /\ UNCHANGED <<nodes, edges>>
  ELSE LET node == [id |-> id, data |-> data, rules |-> rules]
           ns == Graph_addNode(nodes, node)
       IN IF findNode(id) # Undefined
          THEN /\ nodes' = ns
               /\ result' = Thrown("createNode", id, "Duplicate node id")
               /\ UNCHANGED edges
          ELSE /\ nodes' = ns
               /\ edges' = Sweep(edges, node, Graph_nodes(ns), 1)
               /\ result' = Ok("createNode", id, node)

\* faulty variant: the edges of every pair of nodes are recalculated, old
\* pairs included
createNode_rebuild(id, data, rules) ==
  IF id = EmptyId
  THEN /\ result' = Thrown("createNode", id, "Id is required")
       /\ UNCHANGED <<nodes, edges>>
  ELSE IF findNode(id) # Undefined
  THEN /\ result' = Thrown("createNode", id, "Duplicate node id")
       /\ UNCHANGED <<nodes, edges>>
  ELSE LET node == [id |-> id, data |-> data, rules |-> rules]
           ns == Graph_addNode(nodes, node)
       IN /\ nodes' = ns
          /\ edges' = {<<p[1].id, p[2].id>> :
                         p \in {q \in ns \X ns :
                                  q[1] # q[2] /\ tryHandshake(q[1], q[2])}}
          /\ result' = Ok("createNode", id, node)

\* faulty variant: the insertion re-evaluates every pair of present nodes,
\* not only the pairs of the new node
createNode_resweep(id, data, rules) ==
  IF id = EmptyId
  THEN /\ result' = Thrown("createNode", id, "Id is required")
       /\ UNCHANGED <<nodes, edges>>
  ELSE IF findNode(id) # Undefined
  THEN /\ result' = Thrown("createNode", id, "Duplicate node id")
       /\ UNCHANGED <<nodes, edges>>
  ELSE LET node == [id |-> id, data |-> data, rules |-> rules]
           ns == Graph_addNode(nodes, node)
       IN /\ nodes' = ns
          /\ edges' = Sweep(edges, node, Graph_nodes(ns), 1) \cup
                        {<<p[1].id, p[2].id>> :
                           p \in {q \in ns \X ns :
                                    q[1] # q[2] /\ tryHandshake(q[1], q[2])}}
          /\ result' = Ok("createNode", id, node)

createNode(id, data, rules) ==
  IF id = EmptyId
  THEN /\ result' = Thrown("createNode", id, "Id is required")
       /\ UNCHANGED <<nodes, edges>>
  ELSE IF findNode(id) # Undefined
  THEN /\ result' = Thrown("createNode", id, "Duplicate node id")
       /\ UNCHANGED <<nodes, edges>>
  ELSE LET node == [id |-> id, data |-> data, rules |-> rules]
           ns == Graph_addNode(nodes, node)
       IN /\ nodes' = ns
          /\ edges' = Sweep(edges, node, Graph_nodes(ns), 1)
          /\ result' = Ok("createNode", id, node)

RECURSIVE RemoveTouching(_, _, _)
\* for (const adjacent of adjacentNodes) { removeEdge both ways }
RemoveTouching(e, id, adjacentNodes) ==
  IF adjacentNodes = {} THEN e
  ELSE LET adj == CHOOSE a \in adjacentNodes : TRUE
       IN RemoveTouching(
            Graph_removeEdge(Graph_removeEdge(e, id, adj), adj, id),
            id, adjacentNodes \ {adj})

\* faulty variant: the manager clears the node's adjacency as updateNodeData
\* does and the store drops only the node and its outgoing edges
removeNode_adjacentOnly(id) ==
  LET node == findNode(id)
  IN IF node = Undefined
     THEN /\ result' = Ok("removeNode", id, Undefined)
          /\ UNCHANGED <<nodes, edges>>
     ELSE /\ nodes' = Graph_removeNode_nodes(nodes, node)
          /\ edges' = {p \in RemoveTouching(edges, node.id,
                                             Graph_adjacent(edges, node.id)) :
                         p[1] # node.id}
          /\ result' = Ok("removeNode", id, Undefined)

\* faulty variant: an absent id is refused the way updateNodeData refuses it
removeNode_throws(id) ==
  LET node == findNode(id)
  IN IF node = Undefined
     THEN /\ result' = Thrown("removeNode", id, "No such node")
          /\ UNCHANGED <<nodes, edges>>
     ELSE /\ nodes' = Graph_removeNode_nodes(nodes, node)
          /\ edges' = Graph_removeNode_edges(edges, node.id)
          /\ result' = Ok("removeNode", id, Undefined)

removeNode(id) ==
  LET node == findNode(id)
  IN IF node = Undefined
     THEN /\ result' = Ok("removeNode", id, Undefined)
          /\ UNCHANGED <<nodes, edges>>
     ELSE /\ nodes' = Graph_removeNode_nodes(nodes, node)
          /\ edges' = Graph_removeNode_edges(edges, node.id)
          /\ result' = Ok("removeNode", id, Undefined)

\* node.data = newData, on the node object held by the store
SetData(ns, node, newData) ==
  (ns \ {node}) \cup {[node EXCEPT !.data = newData]}

\* faulty variant: the clearing takes every edge of each adjacent node
\* with it, not only the edges between that node and the updated one
Recalculate_clearNeighbors(ns, e, node, newData) ==
  LET adjacentNodes == Graph_adjacent(e, node.id)
      cleared == {p \in e : /\ p[1] \notin adjacentNodes \cup {node.id}
                            /\ p[2] \notin adjacentNodes \cup {node.id}}
      updated == [node EXCEPT !.data = newData]
  IN Sweep(cleared, updated, Graph_nodes(SetData(ns, node, newData)), 1)

\* the edge work of updateNodeData on a present node
Recalculate(ns, e, node, newData) ==
  LET adjacentNodes == Graph_adjacent(e, node.id)
      cleared == RemoveTouching(e, node.id, adjacentNodes)
      updated == [node EXCEPT !.data = newData]
  IN Sweep(cleared, updated, Graph_nodes(SetData(ns, node, newData)), 1)

\* faulty variant: an absent id is ignored instead of thrown
updateNodeData_silent(id, newData) ==
  LET node == findNode(id)
  IN IF node = Undefined
     THEN /\ result' = Ok("updateNodeData", id, Undefined)
          /\ UNCHANGED <<nodes, edges>>
     ELSE /\ nodes' = SetData(nodes, node, newData)
          /\ edges' = Recalculate(nodes, edges, node, newData)
          /\ result' = Ok("updateNodeData", id, Undefined)

updateNodeData(id, newData) ==
  LET node == findNode(id)
  IN IF node = Undefined
     THEN /\ result' = Thrown("updateNodeData", id, "No such node")
          /\ UNCHANGED <<nodes, edges>>
     ELSE /\ nodes' = SetData(nodes, node, newData)
          /\ edges' = Recalculate(nodes, edges, node, newData)
          /\ result' = Ok("updateNodeData", id, Undefined)

getNode(id) ==
  /\ result' = Ok("getNode", id, findNode(id))
  /\ UNCHANGED <<nodes, edges>>

\* faulty variant: assigning data re-evaluates the node's edges
mutateData_recalculates(id, newData) ==
  LET node == findNode(id)
  IN /\ node # Undefined
     /\ nodes' = SetData(nodes, node, newData)
     /\ result' = Ok("mutateData", id, Undefined)
     /\ edges' = Recalculate(nodes, edges, node, newData)

\* getNode(id).data = newData: the caller replaces the payload in place
mutateData(id, newData) ==
  LET node == findNode(id)
  IN /\ node # Undefined
     /\ nodes' = SetData(nodes, node, newData)
     /\ result' = Ok("mutateData", id, Undefined)
     /\ UNCHANGED edges

RECURSIVE Enumerations(_)
\* every order in which a Set of the store may enumerate the members ns
Enumerations(ns) ==
  IF ns = {} THEN {<<>>}
  ELSE UNION {{<<n>> \o rest : rest \in Enumerations(ns \ {n})} : n \in ns}

(******************************* traversal *********************************)

\* an option that was not supplied
NoCallback == [kind |-> "undefined"]

\* a visitor that returns false at node stopAt and nothing elsewhere
VisitStopAt(stopAt) ==
  [kind |-> "visit", stopAt |-> stopAt, otherwise |-> "undefined"]

\* a visitor that returns true at every node
VisitAll == [kind |-> "visit", stopAt |-> EmptyId, otherwise |-> "true"]

\* res = visit(node, depth)
VisitResult(visit, node, depth) ==
  IF node = visit.stopAt THEN "false" ELSE visit.otherwise

\* expand: node => node.id !== barrier
ExpandAllBut(barrier) == [kind |-> "expand", barrier |-> barrier]

ExpandResult(expand, node, depth) == node # expand.barrier

NoMaxDepth == [defined |-> FALSE, value |-> 0]

MaxDepthOf(k) == [defined |-> TRUE, value |-> k]

\* the node record a handle of id refers to, present in the store or not
Handle(id) ==
  IF \E n \in nodes : n.id = id
  THEN CHOOSE n \in nodes : n.id = id
  ELSE [id |-> id, data |-> 0, rules |-> <<>>]

findNodeById(id) ==
  IF \E n \in nodes : n.id = id
  THEN CHOOSE n \in nodes : n.id = id
  ELSE Undefined

\* network.adjacent(node) is a Set for a node of the store, undefined else
Graph_hasAdjacent(ns, id) == \E n \in ns : n.id = id

\* the iteration orders the adjacency Sets of the store may have
AdjacencyOrders(e) ==
  {f \in [NodeIds -> UNION {Enumerations(S) : S \in SUBSET NodeIds}] :
     \A id \in NodeIds : f[id] \in Enumerations(Graph_adjacent(e, id))}

RECURSIVE AdjacencyOrdersOver(_, _)
\* the same for a store that holds the nodes ids (ids is not empty)
AdjacencyOrdersOver(ids, e) ==
  LET id == CHOOSE x \in ids : TRUE
      own == {id :> s : s \in Enumerations(Graph_adjacent(e, id))}
  IN IF ids = {id} THEN own
     ELSE {f @@ g : f \in own, g \in AdjacencyOrdersOver(ids \ {id}, e)}

\* faulty variant: res is tested for falsiness, so a visitor that returns
\* nothing stops the traversal
Stops_falsy(res) == res # "true"

\* res === false
Stops(res) == res = "false"

RECURSIVE EnqueueLoop_revisit(_, _, _, _, _)
\* faulty variant: neighbors are enqueued without consulting visited
EnqueueLoop_revisit(vis, q, adj, k, depth) ==
  IF k > Len(adj) THEN [visited |-> vis, queue |-> q]
  ELSE EnqueueLoop_revisit(vis \cup {adj[k]},
                           Append(q, [node |-> adj[k], depth |-> depth + 1]),
                           adj, k + 1, depth)

RECURSIVE EnqueueLoop_stack(_, _, _, _, _)
\* faulty variant: new entries go to the front of the queue
EnqueueLoop_stack(vis, q, adj, k, depth) ==
  IF k > Len(adj) THEN [visited |-> vis, queue |-> q]
  ELSE IF adj[k] \in vis THEN EnqueueLoop_stack(vis, q, adj, k + 1, depth)
  ELSE EnqueueLoop_stack(vis \cup {adj[k]},
                         <<[node |-> adj[k], depth |-> depth + 1]>> \o q,
                         adj, k + 1, depth)

RECURSIVE EnqueueLoop_break(_, _, _, _, _)
\* faulty variant: a neighbour that was already discovered ends the loop
\* over the adjacency instead of being skipped
EnqueueLoop_break(vis, q, adj, k, depth) ==
  IF k > Len(adj) THEN [visited |-> vis, queue |-> q]
  ELSE IF adj[k] \in vis THEN [visited |-> vis, queue |-> q]
  ELSE EnqueueLoop_break(vis \cup {adj[k]},
                         Append(q, [node |-> adj[k], depth |-> depth + 1]),
                         adj, k + 1, depth)

RECURSIVE EnqueueLoop(_, _, _, _, _)
\* for (const next of adj), from adj[k] on: the visited set and the queue
EnqueueLoop(vis, q, adj, k, depth) ==
  IF k > Len(adj) THEN [visited |-> vis, queue |-> q]
  ELSE IF adj[k] \in vis THEN EnqueueLoop(vis, q, adj, k + 1, depth)
  ELSE EnqueueLoop(vis \cup {adj[k]},
                   Append(q, [node |-> adj[k], depth |-> depth + 1]),
                   adj, k + 1, depth)

NoEntry == [node |-> EmptyId, depth |-> 0]

NoCall == [start |-> EmptyId, options |-> [visit |-> NoCallback,
                                            expand |-> NoCallback,
                                            maxDepth |-> NoMaxDepth]]

\* no bfs call has been made
BfsIdle ==
  /\ pc = "idle"
  /\ call = NoCall
  /\ adjOrder = [id \in NodeIds |-> <<>>]
  /\ visited = {}
  /\ order = <<>>
  /\ queue = <<>>
  /\ current = NoEntry
  /\ calls = <<>>

\* faulty variant: an unknown start yields an empty traversal, not an error
bfs_emptyOnMissing(start, options, adjacency) ==
  /\ pc = "idle"
  /\ LET startNode == IF start.kind = "string"
                      THEN findNodeById(start.id) ELSE start.node
     IN IF startNode = Undefined
        THEN /\ pc' = "returned"
             /\ UNCHANGED <<result, call, adjOrder, visited, order, queue>>
        ELSE /\ pc' = "while"
             /\ call' = [start |-> startNode.id, options |-> options]
             /\ adjOrder' = adjacency
             /\ visited' = {startNode.id}
             /\ order' = <<>>
             /\ queue' = <<[node |-> startNode.id, depth |-> 0]>>
             /\ UNCHANGED result
  /\ UNCHANGED <<nodes, edges, current, calls>>

\* bfs(network, start, options) up to the while loop; adjacency is the
\* iteration order of the store's adjacency Sets during the call
bfs(start, options, adjacency) ==
  /\ pc = "idle"
  /\ LET startNode == IF start.kind = "string"
                      THEN findNodeById(start.id) ELSE start.node
     IN IF startNode = Undefined
        THEN /\ pc' = "thrown"
             /\ result' = Thrown("bfs", start.id, "Start node not found")
             /\ UNCHANGED <<call, adjOrder, visited, order, queue>>
        ELSE /\ pc' = "while"
             /\ call' = [start |-> startNode.id, options |-> options]
             /\ adjOrder' = adjacency
             /\ visited' = {startNode.id}
             /\ order' = <<>>
             /\ queue' = <<[node |-> startNode.id, depth |-> 0]>>
             /\ UNCHANGED result
  /\ UNCHANGED <<nodes, edges, current, calls>>

\* while (queue.length) { queue.shift(); order.push(node) ... } return order
bfsDequeue ==
  /\ pc = "while"
  /\ IF queue = <<>>
     THEN /\ pc' = "returned"
          /\ UNCHANGED <<queue, order, current>>
     ELSE /\ current' = Head(queue)
          /\ queue' = Tail(queue)
          /\ order' = Append(order, Head(queue).node)
          /\ pc' = "visit"
  /\ UNCHANGED <<nodes, edges, result, call, adjOrder, visited, calls>>
\* faulty variant: the visitor is not called for the start node
bfsVisit_skipStart ==
  /\ pc = "visit"
  /\ LET visit == call.options.visit
         res == VisitResult(visit, current.node, current.depth)
     IN IF visit = NoCallback \/ current.depth = 0
        THEN /\ pc' = "expand"
             /\ UNCHANGED calls
        ELSE /\ calls' = Append(calls, [fn |-> "visit", node |-> current.node,
                                         depth |-> current.depth, res |-> res])
             /\ pc' = IF Stops(res) THEN "returned" ELSE "expand"
  /\ UNCHANGED <<nodes, edges, result, call, adjOrder, visited, order,
                 queue, current>>

\* if (visit) { const res = visit(node, depth); if (res === false) return }
bfsVisit ==
  /\ pc = "visit"
  /\ LET visit == call.options.visit
         res == VisitResult(visit, current.node, current.depth)
     IN IF visit = NoCallback
        THEN /\ pc' = "expand"
             /\ UNCHANGED calls
        ELSE /\ calls' = Append(calls, [fn |-> "visit", node |-> current.node,
                                         depth |-> current.depth, res |-> res])
             /\ pc' = IF Stops(res) THEN "returned" ELSE "expand"
  /\ UNCHANGED <<nodes, edges, result, call, adjOrder, visited, order,
                 queue, current>>

\* faulty variant: a node at depth maxDepth is still expanded
bfsExpand_offByOne ==
  /\ pc = "expand"
  /\ LET maxDepth == call.options.maxDepth
         expand == call.options.expand
         grown == EnqueueLoop(visited, queue, adjOrder[current.node], 1,
                              current.depth)
         expanded == ExpandResult(expand, current.node, current.depth)
         asked == Append(calls, [fn |-> "expand", node |-> current.node,
                                 depth |-> current.depth,
                                 res |-> IF expanded THEN "true" ELSE "false"])
     IN IF maxDepth.defined /\ current.depth > maxDepth.value
        THEN UNCHANGED <<visited, queue, calls>>
        ELSE IF expand # NoCallback /\ ~expanded
        THEN /\ calls' = asked
             /\ UNCHANGED <<visited, queue>>
        ELSE /\ calls' = IF expand # NoCallback THEN asked ELSE calls
             /\ IF ~Graph_hasAdjacent(nodes, current.node)
                THEN UNCHANGED <<visited, queue>>
                ELSE /\ visited' = grown.visited
                     /\ queue' = grown.queue
  /\ pc' = "while"
  /\ UNCHANGED <<nodes, edges, result, call, adjOrder, order, current>>

\* faulty variant: expand is called but its answer is not used
bfsExpand_noBarrier ==
  /\ pc = "expand"
  /\ LET maxDepth == call.options.maxDepth
         expand == call.options.expand
         grown == EnqueueLoop(visited, queue, adjOrder[current.node], 1,
                              current.depth)
         expanded == ExpandResult(expand, current.node, current.depth)
         asked == Append(calls, [fn |-> "expand", node |-> current.node,
                                 depth |-> current.depth,
                                 res |-> IF expanded THEN "true" ELSE "false"])
     IN IF maxDepth.defined /\ current.depth >= maxDepth.value
        THEN UNCHANGED <<visited, queue, calls>>
        ELSE /\ calls' = IF expand # NoCallback THEN asked ELSE calls
             /\ IF ~Graph_hasAdjacent(nodes, current.node)
                THEN UNCHANGED <<visited, queue>>
                ELSE /\ visited' = grown.visited
                     /\ queue' = grown.queue
  /\ pc' = "while"
  /\ UNCHANGED <<nodes, edges, result, call, adjOrder, order, current>>

\* faulty variant: the edges out of the expanded node are taken out of the
\* store as its neighbours are enqueued
bfsExpand_consume ==
  /\ pc = "expand"
  /\ LET maxDepth == call.options.maxDepth
         expand == call.options.expand
         grown == EnqueueLoop(visited, queue, adjOrder[current.node], 1,
                              current.depth)
         expanded == ExpandResult(expand, current.node, current.depth)
         asked == Append(calls, [fn |-> "expand", node |-> current.node,
                                 depth |-> current.depth,
                                 res |-> IF expanded THEN "true" ELSE "false"])
     IN IF maxDepth.defined /\ current.depth >= maxDepth.value
        THEN UNCHANGED <<visited, queue, calls, edges>>
        ELSE IF expand # NoCallback /\ ~expanded
        THEN /\ calls' = asked
             /\ UNCHANGED <<visited, queue, edges>>
        ELSE /\ calls' = IF expand # NoCallback THEN asked ELSE calls
             /\ IF ~Graph_hasAdjacent(nodes, current.node)
                THEN UNCHANGED <<visited, queue, edges>>
                ELSE /\ visited' = grown.visited
                     /\ queue' = grown.queue
                     /\ edges' = {p \in edges : p[1] # current.node}
  /\ pc' = "while"
  /\ UNCHANGED <<nodes, result, call, adjOrder, order, current>>

\* the maxDepth test, the expand test and the enqueueing of the neighbors
bfsExpand ==
  /\ pc = "expand"
  /\ LET maxDepth == call.options.maxDepth
         expand == call.options.expand
         grown == EnqueueLoop(visited, queue, adjOrder[current.node], 1,
                              current.depth)
         expanded == ExpandResult(expand, current.node, current.depth)
         asked == Append(calls, [fn |-> "expand", node |-> current.node,
                                 depth |-> current.depth,
                                 res |-> IF expanded THEN "true" ELSE "false"])
     IN IF maxDepth.defined /\ current.depth >= maxDepth.value
        THEN UNCHANGED <<visited, queue, calls>>
        ELSE IF expand # NoCallback /\ ~expanded
        THEN /\ calls' = asked
             /\ UNCHANGED <<visited, queue>>
        ELSE /\ calls' = IF expand # NoCallback THEN asked ELSE calls
             /\ IF ~Graph_hasAdjacent(nodes, current.node)
                THEN UNCHANGED <<visited, queue>>
                ELSE /\ visited' = grown.visited
                     /\ queue' = grown.queue
  /\ pc' = "while"
  /\ UNCHANGED <<nodes, edges, result, call, adjOrder, order, current>>

(***************************** specifications ******************************)

universalRule == Rule(NoDirection, "always", "none")
greaterThan == Rule(Outgoing, "gt", "none")
acceptSame == Rule(Incoming, "same", "none")
sameToOdd == Rule(Both, "same", "odd")

\* the rule lists callers pass to createNode in Spec
RuleLists ==
  { <<>>,
    <<universalRule>>,
    <<greaterThan, acceptSame>>,
    <<sameToOdd>> }

Init ==
  /\ nodes = {}
  /\ edges = {}
  /\ result = Ok("new", EmptyId, Undefined)
  /\ BfsIdle
  /\ network = NewNetwork("Network")

Next ==
  \/ \E id \in IdInputs, d \in Data, rs \in RuleLists :
       createNode(id, d, rs) /\ UNCHANGED <<bfsVars, network>>
  \/ \E id \in IdInputs : removeNode(id) /\ UNCHANGED <<bfsVars, network>>
  \/ \E id \in NodeIds, d \in Data :
       updateNodeData(id, d) /\ UNCHANGED <<bfsVars, network>>
  \/ \E id \in NodeIds : getNode(id) /\ UNCHANGED <<bfsVars, network>>
  \/ \E id \in NodeIds, d \in Data : mutateData(id, d) /\ UNCHANGED <<bfsVars, network>>

Spec == Init /\ [][Next]_vars

\* createNode, removeNode and updateNodeData only: no direct data
\* replacement and no manual edge edit
NextManaged ==
  \/ \E id \in IdInputs, d \in Data, rs \in RuleLists :
       createNode(id, d, rs) /\ UNCHANGED <<bfsVars, network>>
  \/ \E id \in IdInputs : removeNode(id) /\ UNCHANGED <<bfsVars, network>>
  \/ \E id \in NodeIds, d \in Data :
       updateNodeData(id, d) /\ UNCHANGED <<bfsVars, network>>

SpecManaged == Init /\ [][NextManaged]_vars

\* the manager's operations, lookup included; no direct data replacement
NextLookup ==
  \/ \E id \in IdInputs, d \in Data, rs \in RuleLists :
       createNode(id, d, rs) /\ UNCHANGED <<bfsVars, network>>
  \/ \E id \in IdInputs : removeNode(id) /\ UNCHANGED <<bfsVars, network>>
  \/ \E id \in NodeIds, d \in Data :
       updateNodeData(id, d) /\ UNCHANGED <<bfsVars, network>>
  \/ \E id \in NodeIds : getNode(id) /\ UNCHANGED <<bfsVars, network>>

SpecLookup == Init /\ [][NextLookup]_vars

\* insertions only
NextCreate ==
  \E id \in IdInputs, d \in Data, rs \in RuleLists :
    createNode(id, d, rs) /\ UNCHANGED <<bfsVars, network>>

SpecCreate == Init /\ [][NextCreate]_vars

\* the constructor's arguments: undefined, the default class or a subclass,
\* and undefined or an instance the caller made of either class
ClassInputs == {"undefined", "Network", "CustomNetwork"}
InstanceInputs == {NoNetwork, Supplied("Network"), Supplied("CustomNetwork")}

\* what the instance a caller may pass holds before the manager exists:
\* nothing, or one node the caller added through the store's own addNode
InstanceContents ==
  { {}, {[id |-> "a", data |-> 0, rules |-> <<universalRule>>]} }

\* before new NetworkManager(...): no manager yet, nodes and edges are those
\* of the caller's own instance
InitConstruct ==
  /\ nodes \in InstanceContents
  /\ edges = {}
  /\ result = Ok("none", EmptyId, Undefined)
  /\ BfsIdle
  /\ network = NoNetwork

\* construction, then the manager's operations on the store it holds
NextConstruct ==
  \/ \E networkClass \in ClassInputs, supplied \in InstanceInputs :
       constructor(networkClass, supplied) /\ UNCHANGED bfsVars
  \/ /\ network # NoNetwork
     /\ \E id \in IdInputs, d \in Data, rs \in RuleLists :
          createNode(id, d, rs) /\ UNCHANGED <<bfsVars, network>>
  \/ /\ network # NoNetwork
     /\ \E id \in IdInputs : removeNode(id) /\ UNCHANGED <<bfsVars, network>>
  \/ /\ network # NoNetwork
     /\ \E id \in NodeIds, d \in Data :
          updateNodeData(id, d) /\ UNCHANGED <<bfsVars, network>>

SpecConstruct == InitConstruct /\ [][NextConstruct]_vars

\* the rules SpecHandshake builds rule lists from
HandshakeRules ==
  { universalRule, sameToOdd,
    Rule(Outgoing, "gt", "even"), Rule(Incoming, "same", "odd") }

RECURSIVE ListsUpTo(_, _)
\* the sequences over S of length at most n
ListsUpTo(S, n) ==
  IF n = 0 THEN {<<>>}
  ELSE LET shorter == ListsUpTo(S, n - 1)
       IN shorter \cup {Append(l, x) : l \in shorter, x \in S}

\* two nodes, a created before b, with any payloads and any rule lists
InitHandshake ==
  \E da \in Data, db \in Data :
    \E ra \in ListsUpTo(HandshakeRules, MaxRules),
       rb \in ListsUpTo(HandshakeRules, MaxRules) :
      LET a == [id |-> "a", data |-> da, rules |-> ra]
          b == [id |-> "b", data |-> db, rules |-> rb]
      IN /\ nodes = {a, b}
         /\ edges = Sweep({}, b, Graph_nodes({a, b}), 1)
         /\ result = Ok("createNode", "b", b)
         /\ BfsIdle
         /\ network = NewNetwork("Network")

NextHandshake ==
  \E id \in {"a", "b"}, d \in Data :
    updateNodeData(id, d) /\ UNCHANGED <<bfsVars, network>>

SpecHandshake == InitHandshake /\ [][NextHandshake]_vars

\* the rules SpecOrder builds rule lists from: one that may initiate and
\* accept, one that may only initiate, one that may only accept
OrderRules ==
  { universalRule, Rule(Outgoing, "gt", "even"), Rule(Incoming, "same", "odd") }

\* nodes a and b, each with any list of up to MaxRules of these rules, b
\* created after a
InitOrder ==
  \E da \in Data, db \in Data :
    \E ra \in ListsUpTo(OrderRules, MaxRules),
       rb \in ListsUpTo(OrderRules, MaxRules) :
      LET a == [id |-> "a", data |-> da, rules |-> ra]
          b == [id |-> "b", data |-> db, rules |-> rb]
      IN /\ nodes = {a, b}
         /\ edges = Sweep({}, b, Graph_nodes({a, b}), 1)
         /\ result = Ok("createNode", "b", b)
         /\ BfsIdle
         /\ network = NewNetwork("Network")

SpecOrder == InitOrder /\ [][NextHandshake]_vars

\* the always-true rules of the direction tests
outgoingAll == Rule(Outgoing, "always", "none")

incomingAll == Rule(Incoming, "always", "none")

bothAll == Rule(Both, "always", "none")

DirectionLists == { <<outgoingAll>>, <<incomingAll>>, <<bothAll>> }

\* nodes created with one always-true rule each, of any direction
NextDirections ==
  \E id \in IdInputs, d \in Data, rs \in DirectionLists :
    createNode(id, d, rs) /\ UNCHANGED <<bfsVars, network>>

SpecDirections == Init /\ [][NextDirections]_vars

\* the start arguments: an id string, or a node handle (of a present node
\* or of one the store does not hold)
StartInputs ==
  {[kind |-> "string", id |-> id, node |-> Undefined] : id \in NodeIds}
    \cup {[kind |-> "node", id |-> id, node |-> Handle(id)] : id \in NodeIds}

VisitOptions == {NoCallback, VisitAll} \cup {VisitStopAt(id) : id \in NodeIds}

ExpandOptions == {NoCallback} \cup {ExpandAllBut(id) : id \in NodeIds}

MaxDepthOptions == {NoMaxDepth} \cup {MaxDepthOf(k) : k \in 0..MaxDepth}

BfsOptions ==
  [visit : VisitOptions, expand : ExpandOptions, maxDepth : MaxDepthOptions]

\* nodes created without rules and wired by hand, as the bfs tests do
InitBfs ==
  /\ \E ids \in SUBSET NodeIds :
       /\ nodes = {[id |-> id, data |-> 0, rules |-> <<>>] : id \in ids}
       /\ edges \in SUBSET {p \in ids \X ids : p[1] # p[2]}
  /\ result = Ok("new", EmptyId, Undefined)
  /\ BfsIdle
  /\ network = NewNetwork("Network")

NextBfs ==
  \/ /\ pc = "idle"
     /\ \E start \in StartInputs, options \in BfsOptions,
           adjacency \in AdjacencyOrders(edges) :
          bfs(start, options, adjacency)
     /\ UNCHANGED network
  \/ bfsDequeue /\ UNCHANGED network
  \/ bfsVisit /\ UNCHANGED network
  \/ bfsExpand /\ UNCHANGED network

SpecBfs == InitBfs /\ [][NextBfs]_vars

\* one step of a running call: bfs is a synchronous function, so a call
\* that has begun keeps taking its next step until it returns
Running == (bfsDequeue \/ bfsVisit \/ bfsExpand) /\ UNCHANGED network

SpecBfsLive == InitBfs /\ [][NextBfs]_vars /\ WF_vars(Running)

\* manager operations, then, right after a removeNode, one full bfs from
\* a node that is still stored, given by reference or by id
NextCompose ==
  \/ /\ pc = "idle"
     /\ \E id \in IdInputs, d \in Data, rs \in RuleLists :
          createNode(id, d, rs) /\ UNCHANGED <<bfsVars, network>>
  \/ /\ pc = "idle"
     /\ \E id \in IdInputs : removeNode(id) /\ UNCHANGED <<bfsVars, network>>
  \/ /\ pc = "idle"
     /\ \E id \in NodeIds, d \in Data :
          updateNodeData(id, d) /\ UNCHANGED <<bfsVars, network>>
  \/ /\ pc = "idle"
     /\ result.op = "removeNode"
     /\ \E n \in nodes, kind \in {"string", "node"},
           visit \in {NoCallback, VisitAll},
           adjacency \in AdjacencyOrders(edges) :
          bfs([kind |-> kind, id |-> n.id,
               node |-> IF kind = "node" THEN n ELSE Undefined],
              [visit |-> visit, expand |-> NoCallback, maxDepth |-> NoMaxDepth],
              adjacency)
     /\ UNCHANGED network
  \/ bfsDequeue /\ UNCHANGED network
  \/ bfsVisit /\ UNCHANGED network
  \/ bfsExpand /\ UNCHANGED network

SpecCompose == Init /\ [][NextCompose]_vars

\* the node ids of the maxDepth test
ChainIds == {"a", "b", "c", "d"}

\* the edges of the maxDepth test: a->b->c->d
Chain == { <<"a", "b">>, <<"b", "c">>, <<"c", "d">> }

\* the maxDepth values given to bfs in SpecDepth
DepthLimits == 0..(MaxDepth + 1)

\* four nodes created without rules and wired by hand with at most
\* MaxWired edges
InitDepth ==
  /\ nodes = {[id |-> id, data |-> 0, rules |-> <<>>] : id \in ChainIds}
  /\ edges \in {e \in SUBSET {p \in ChainIds \X ChainIds : p[1] # p[2]} :
                  Cardinality(e) <= MaxWired}
  /\ result = Ok("new", EmptyId, Undefined)
  /\ BfsIdle
  /\ network = NewNetwork("Network")

\* bfs with maxDepth set, no expand hook and a visitor that never stops
NextDepth ==
  \/ /\ pc = "idle"
     /\ \E id \in ChainIds, k \in DepthLimits, visit \in {NoCallback, VisitAll},
           adjacency \in AdjacencyOrdersOver(ChainIds, edges) :
          bfs([kind |-> "node", id |-> id, node |-> Handle(id)],
              [visit |-> visit, expand |-> NoCallback,
               maxDepth |-> MaxDepthOf(k)],
              adjacency)
     /\ UNCHANGED network
  \/ bfsDequeue /\ UNCHANGED network
  \/ bfsVisit /\ UNCHANGED network
  \/ bfsExpand /\ UNCHANGED network

SpecDepth == InitDepth /\ [][NextDepth]_vars

(******************************** claims ***********************************)

\* the handshake as the documentation states it, rule by rule
Initiates(rule, source, target) ==
  /\ rule.direction \in {Outgoing, Both, NoDirection}
  /\ rule.targetFilter = "none" \/ TargetFilter(rule, target.data)
  /\ Match(rule, source.data, target.data)

Accepts(rule, target, source) ==
  /\ rule.direction \in {Incoming, Both, NoDirection}
  /\ Match(rule, target.data, source.data)

Justified(source, target) ==
  /\ \E i \in DOMAIN source.rules : Initiates(source.rules[i], source, target)
  /\ \E j \in DOMAIN target.rules : Accepts(target.rules[j], target, source)

\* the edge set the handshake implies for the present nodes
ImpliedEdges ==
  {<<a.id, b.id>> : <<a, b>> \in {p \in nodes \X nodes :
                                    p[1] # p[2] /\ Justified(p[1], p[2])}}

Succeeded(op) == result.op = op /\ result.error = "none"

\* C1: for every ordered pair of present nodes, tryHandshake returns true
\* exactly when the source has an initiating rule (Outgoing, Both or no
\* direction; targetFilter, if any, accepts the target's data; match holds)
\* and the target has an accepting rule (Incoming, Both or no direction;
\* match(target.data, source.data) holds).
C1_HandshakeIff ==
  \A s \in nodes, t \in nodes :
    s # t => (tryHandshake(s, t) <=> Justified(s, t))

\* C1 witness: a pair whose first source rule fails and whose second
\* succeeds, accepted by a rule of the target whose targetFilter rejects
\* the source, while the reverse handshake fails.
C1_Witness ==
  \E s \in nodes, t \in nodes :
    /\ s # t
    /\ Len(s.rules) = 2
    /\ ~Initiates(s.rules[1], s, t)
    /\ Initiates(s.rules[2], s, t)
    /\ \E j \in DOMAIN t.rules :
         /\ Accepts(t.rules[j], t, s)
         /\ t.rules[j].targetFilter # "none"
         /\ ~TargetFilter(t.rules[j], s.data)
    /\ tryHandshake(s, t)
    /\ ~tryHandshake(t, s)
    /\ <<s.id, t.id>> \in edges

\* C2: right after a successful createNode the new node is in the graph
\* and, for every other present node o, edge new->o exists iff
\* handshake(new, o) and edge o->new exists iff handshake(o, new).
C2_CreateMaterializes ==
  Succeeded("createNode") =>
    LET new == findNode(result.id)
    IN /\ new = result.value
       /\ \A o \in nodes \ {new} :
            /\ <<new.id, o.id>> \in edges <=> Justified(new, o)
            /\ <<o.id, new.id>> \in edges <=> Justified(o, new)

\* C2 witness: a creation that materialized a one-way edge from the new
\* node to one existing node and a one-way edge to the new node from
\* another.
C2_Witness ==
  /\ Succeeded("createNode")
  /\ \E o1 \in nodes, o2 \in nodes :
       /\ <<result.id, o1.id>> \in edges /\ <<o1.id, result.id>> \notin edges
       /\ <<o2.id, result.id>> \in edges /\ <<result.id, o2.id>> \notin edges

\* C3: in every state reached by createNode, removeNode and updateNodeData
\* alone, the edge set is exactly the set of pairs of distinct present
\* nodes whose handshake holds on their current data.
C3_EdgeSetExact == edges = ImpliedEdges

\* C4: right after a successful updateNodeData(id, d), an edge o->id or
\* id->o exists only if the corresponding handshake holds on the new data.
C4_UpdateClearsIncident ==
  Succeeded("updateNodeData") =>
    LET n == findNode(result.id)
    IN \A o \in nodes \ {n} :
         /\ <<o.id, n.id>> \in edges => Justified(o, n)
         /\ <<n.id, o.id>> \in edges => Justified(n, o)

\* C5: right after a successful updateNodeData(id, d), calling
\* updateNodeData(id, d) again leaves the edge set as it is.
C5_UpdateIdempotent ==
  Succeeded("updateNodeData") =>
    LET n == findNode(result.id)
    IN Recalculate(nodes, edges, n, n.data) = edges

\* C6: after insertions only, edge A->B exists iff handshake(A, B) holds,
\* whatever the insertion order was, and the sweep of the last insertion
\* gives the same edge set for every order of enumerating the nodes.
C6_OrderIndependent ==
  /\ edges = ImpliedEdges
  /\ Succeeded("createNode") =>
       LET new == findNode(result.id)
           before == {p \in edges : p[1] # new.id /\ p[2] # new.id}
       IN \A listed \in Enumerations(nodes) :
            Sweep(before, new, listed, 1) = edges

\* C6 witness: three nodes inserted, with a one-way edge, a two-way pair
\* and an unconnected ordered pair among them.
C6_Witness ==
  /\ Succeeded("createNode")
  /\ Cardinality(nodes) = 3
  /\ \E p \in edges : <<p[2], p[1]>> \notin edges
  /\ \E p \in edges : <<p[2], p[1]>> \in edges
  /\ \E a \in nodes, b \in nodes :
       a # b /\ <<a.id, b.id>> \notin edges /\ <<b.id, a.id>> \notin edges

\* C7: removeNode(id) on a present node takes the node out of the graph
\* (getNode(id) finds nothing), leaves no edge from or to it, and leaves
\* the edges between all other nodes exactly as they were.
C7_RemoveEdgeComplete ==
  [][\A id \in NodeIds :
       (result'.op = "removeNode" /\ result'.id = id
          /\ findNode(id) # Undefined) =>
         /\ nodes' = nodes \ {findNode(id)}
         /\ \A n \in nodes' : n.id # id
         /\ \A p \in edges' : p[1] # id /\ p[2] # id
         /\ \A a \in NodeIds \ {id}, b \in NodeIds \ {id} :
              <<a, b>> \in edges' <=> <<a, b>> \in edges]_vars

\* C7 witness: a node was removed and the two remaining nodes are still
\* connected.
C7_Witness ==
  /\ Succeeded("removeNode")
  /\ findNode(result.id) = Undefined
  /\ Cardinality(nodes) = 2
  /\ edges # {}

\* C8: replacing a node's data through the node handle leaves the node
\* set (ids and rules) and the edge set unchanged.
C8_DirectMutationFrame ==
  [][result'.op = "mutateData" =>
       /\ edges' = edges
       /\ {<<n.id, n.rules>> : n \in nodes'} = {<<n.id, n.rules>> : n \in nodes}]_vars

\* C8 witness: after a direct replacement a present edge is no longer
\* justified by the current data and an absent edge has become justified.
C8_Witness ==
  /\ Succeeded("mutateData")
  /\ \E a \in nodes, b \in nodes :
       a # b /\ <<a.id, b.id>> \in edges /\ ~Justified(a, b)
  /\ \E a \in nodes, b \in nodes :
       a # b /\ <<a.id, b.id>> \notin edges /\ Justified(a, b)

\* C9: createNode with an empty id throws 'Id is required', createNode
\* with an id already present throws 'Duplicate node id', and in both
\* cases nodes (with their data) and edges are as before the call.
C9_CreateErrors ==
  [][result'.op = "createNode" =>
       /\ result'.id = EmptyId =>
            /\ result'.error = "Id is required"
            /\ UNCHANGED <<nodes, edges>>
       /\ (result'.id # EmptyId /\ findNode(result'.id) # Undefined) =>
            /\ result'.error = "Duplicate node id"
            /\ UNCHANGED <<nodes, edges>>]_vars

\* C9 witness: a duplicate id was refused in a graph that has edges.
C9_Witness ==
  /\ result.op = "createNode"
  /\ result.error = "Duplicate node id"
  /\ findNode(result.id) # Undefined
  /\ edges # {}

\* C10: updateNodeData on an absent id throws 'No such node' and leaves
\* nodes (with their data) and edges as before the call.
C10_UpdateMissing ==
  [][(result'.op = "updateNodeData" /\ findNode(result'.id) = Undefined) =>
       /\ result'.error = "No such node"
       /\ UNCHANGED <<nodes, edges>>]_vars

\* C10 witness: an update of an absent id was refused in a graph that
\* has edges.
C10_Witness ==
  /\ result.op = "updateNodeData"
  /\ result.error = "No such node"
  /\ findNode(result.id) = Undefined
  /\ edges # {}

\* C11: removeNode on an id that is not present raises no error and leaves
\* nodes (with their data) and edges as they were; hence a removeNode(id)
\* that directly follows a removeNode(id) changes nothing.
C11_RemoveAbsentNoop ==
  [][result'.op = "removeNode" =>
       /\ findNode(result'.id) = Undefined =>
            /\ result'.error = "none"
            /\ UNCHANGED <<nodes, edges>>
       /\ (result.op = "removeNode" /\ result.id = result'.id) =>
            /\ result'.error = "none"
            /\ UNCHANGED <<nodes, edges>>]_vars

\* C11 witness: removeNode was called with an id no node has (the empty
\* string) while all three nodes were present and connected.
C11_Witness ==
  /\ Succeeded("removeNode")
  /\ result.id = EmptyId
  /\ Cardinality(nodes) = 3
  /\ edges # {}

\* C12: when createNode(N) directly follows a direct replacement of X's
\* data, the edges between N and X are exactly those the handshake
\* justifies on X's current (replaced) data, and every edge between X and
\* another node that was already present is as it was (stale or not).
C12_CreateAfterMutation ==
  [][(result.op = "mutateData" /\ Succeeded("createNode")') =>
       LET x == findNode(result.id)
           n == result'.value
       IN /\ x \in nodes'
          /\ <<n.id, x.id>> \in edges' <=> Justified(n, x)
          /\ <<x.id, n.id>> \in edges' <=> Justified(x, n)
          /\ \A o \in nodes \ {x} :
               /\ <<x.id, o.id>> \in edges' <=> <<x.id, o.id>> \in edges
               /\ <<o.id, x.id>> \in edges' <=> <<o.id, x.id>> \in edges]_vars

\* C12 witness: a node was created and connected to a node x, while x
\* and a third node lack an edge that the current data justifies (only a
\* direct replacement leaves a justified edge out).
C12_Witness ==
  /\ Succeeded("createNode")
  /\ \E x \in nodes, o \in nodes :
       /\ x.id # result.id /\ o.id # result.id /\ x # o
       /\ <<result.id, x.id>> \in edges
       /\ Justified(x, o) /\ <<x.id, o.id>> \notin edges

\* C13: after createNode(A) or updateNodeData(A) has touched the pair
\* (A, B), each direction of the pair is present exactly when its own
\* handshake holds: A->B iff handshake(A, B), B->A iff handshake(B, A),
\* neither depending on the other.
C13_DirectionsIndependent ==
  (Succeeded("createNode") \/ Succeeded("updateNodeData")) =>
    LET a == findNode(result.id)
    IN \A b \in nodes \ {a} :
         /\ <<a.id, b.id>> \in edges <=> tryHandshake(a, b)
         /\ <<b.id, a.id>> \in edges <=> tryHandshake(b, a)

\* C14: a rule of the target whose targetFilter rejects the source's data
\* still accepts: when some rule of the source initiates towards the
\* target and that target rule is Incoming or Both (or has no direction)
\* and its match(target.data, source.data) is true, the handshake holds
\* and the edge source->target exists.
C14_FilterOnlyInitiator ==
  \A s \in nodes, t \in nodes :
    s # t =>
      \A j \in DOMAIN t.rules :
        LET tRule == t.rules[j]
        IN ( /\ HasTargetFilter(tRule)
             /\ ~TargetFilter(tRule, s.data)
             /\ DirectionOf(tRule) \in {Incoming, Both}
             /\ Match(tRule, t.data, s.data)
             /\ \E i \in DOMAIN s.rules : Initiates(s.rules[i], s, t) )
           => (tryHandshake(s, t) /\ <<s.id, t.id>> \in edges)

\* C14 witness: after a recalculation an edge enters a node all of whose
\* rules carry a targetFilter that rejects the source's data.
C14_Witness ==
  /\ Succeeded("updateNodeData")
  /\ \E s \in nodes, t \in nodes :
       /\ s # t
       /\ <<s.id, t.id>> \in edges
       /\ t.rules # <<>>
       /\ \A j \in DOMAIN t.rules :
            /\ HasTargetFilter(t.rules[j])
            /\ ~TargetFilter(t.rules[j], s.data)

\* C15: with a holding one Outgoing always-true rule, b one Incoming
\* always-true rule and c one Both always-true rule, the edge set is
\* exactly { a->b, a->c, c->b } (b->a, c->a and b->c are absent), and
\* while only a and b are present it is exactly { a->b }.
C15_DirectionScenario ==
  LET held == {<<n.id, n.rules>> : n \in nodes}
  IN /\ held = { <<"a", <<outgoingAll>>>>, <<"b", <<incomingAll>>>> } =>
          edges = { <<"a", "b">> }
     /\ held = { <<"a", <<outgoingAll>>>>, <<"b", <<incomingAll>>>>,
                 <<"c", <<bothAll>>>> } =>
          edges = { <<"a", "b">>, <<"a", "c">>, <<"c", "b">> }

\* C15 witness: c was created last, beside a and b of the scenario.
C15_Witness ==
  /\ Succeeded("createNode")
  /\ result.id = "c"
  /\ {<<n.id, n.rules>> : n \in nodes} =
       { <<"a", <<outgoingAll>>>>, <<"b", <<incomingAll>>>>,
         <<"c", <<bothAll>>>> }
  /\ <<"c", "b">> \in edges

Waiting == [i \in 1..Len(queue) |-> queue[i].node]

\* C17: at every point of a bfs call, on any graph and with any options,
\* no node occurs twice in the output, twice in the queue, or in both:
\* a node that was enqueued or output is never enqueued again, and the
\* returned sequence holds each node at most once.
C17_NoRevisit ==
  LET seen == order \o Waiting
  IN /\ \A i \in DOMAIN seen, j \in DOMAIN seen :
          i # j => seen[i] # seen[j]
     /\ {seen[i] : i \in DOMAIN seen} = visited

\* C17 witness: bfs returned all three nodes of a graph in which the
\* third node is reachable from the start along two paths and lies on a
\* cycle through the start.
C17_Witness ==
  /\ pc = "returned"
  /\ Len(order) = 3
  /\ <<order[1], order[2]>> \in edges
  /\ <<order[1], order[3]>> \in edges
  /\ <<order[2], order[3]>> \in edges
  /\ <<order[3], order[1]>> \in edges

\* the calls of the visitor, in the order they were made
VisitCalls == SelectSeq(calls, LAMBDA c : c.fn = "visit")

\* the position of x in the sequence seq
Position(seq, x) == CHOOSE k \in DOMAIN seq : seq[k] = x

\* the i-th visited node has its neighbors enqueued: it is below maxDepth
\* and expand, if supplied, does not make it a barrier
Expands(i) ==
  LET c == VisitCalls[i]
      options == call.options
  IN /\ ~options.maxDepth.defined \/ c.depth < options.maxDepth.value
     /\ options.expand = NoCallback
          \/ ExpandResult(options.expand, c.node, c.depth)

\* the output positions from which the j-th visited node could be reached
Discoverers(j) ==
  {i \in 1..(j - 1) :
     Expands(i) /\ <<VisitCalls[i].node, VisitCalls[j].node>> \in edges}

\* the first of them: the node from which the j-th node was discovered
Discoverer(j) == CHOOSE i \in Discoverers(j) : \A k \in Discoverers(j) : i <= k

\* C18: the output is in level order. The start node is its first
\* element and is visited with depth 0; the depths passed to visit never
\* decrease along the output; every other node is visited with the depth
\* of the node that first discovered it plus one; nodes discovered from
\* one node appear in the iteration order of that node's adjacency.
C18_LevelOrder ==
  (pc \notin {"idle", "thrown"} /\ call.options.visit # NoCallback) =>
    LET V == VisitCalls
    IN /\ order # <<>> => order[1] = call.start
       /\ \A i \in DOMAIN V : V[i].node = order[i]
       /\ V # <<>> => (V[1].node = call.start /\ V[1].depth = 0)
       /\ \A i \in DOMAIN V, j \in DOMAIN V :
            i < j => V[i].depth <= V[j].depth
       /\ \A j \in 2..Len(V) :
            /\ Discoverers(j) # {}
            /\ V[j].depth = V[Discoverer(j)].depth + 1
       /\ \A j \in 2..Len(V), k \in 2..Len(V) :
            (j < k /\ Discoverer(j) = Discoverer(k)) =>
              LET adj == adjOrder[V[Discoverer(j)].node]
              IN Position(adj, V[j].node) < Position(adj, V[k].node)

\* C18 witness: a traversal from a returned a, c, b with depths 0, 1, 1,
\* the adjacency of a listing c before b, with an edge from c to b.
C18_Witness ==
  /\ pc = "returned"
  /\ order = <<"a", "c", "b">>
  /\ adjOrder["a"] = <<"c", "b">>
  /\ <<"c", "b">> \in edges
  /\ Len(VisitCalls) = 3
  /\ VisitCalls[2].depth = 1 /\ VisitCalls[3].depth = 1

\* the visitor has been called once for each output node, in output order,
\* the node appended last excepted while its call is still to come
VisitedInOrder ==
  /\ Len(VisitCalls) = IF pc = "visit" THEN Len(order) - 1 ELSE Len(order)
  /\ \A i \in DOMAIN VisitCalls : VisitCalls[i].node = order[i]

\* C19: with options.visit supplied, the visitor is called exactly once
\* for each node of the output, in output order; each call is made with
\* the dequeued node and its depth when that node is already the last
\* element of the output, and it changes neither output nor queue; no
\* neighbor is enqueued and expand is not called for a node before the
\* visitor has been called for it.
C19_VisitOnceInOrder ==
  [][(call'.options.visit # NoCallback /\ pc' \notin {"idle", "thrown"}) =>
       /\ VisitedInOrder'
       /\ (Len(calls') > Len(calls) /\ calls'[Len(calls')].fn = "visit") =>
            /\ calls'[Len(calls')].node = current.node
            /\ calls'[Len(calls')].depth = current.depth
            /\ order # <<>> /\ order[Len(order)] = current.node
            /\ UNCHANGED <<order, queue, visited>>
       /\ ( /\ pc # "idle"
            /\ \/ Len(queue') > Len(queue)
               \/ visited' # visited
               \/ Len(calls') > Len(calls) /\ calls'[Len(calls')].fn = "expand" ) =>
            /\ Len(VisitCalls) = Len(order)
            /\ VisitCalls[Len(VisitCalls)].node = current.node
            /\ VisitCalls[Len(VisitCalls)].depth = current.depth]_vars

\* C19 witness: a traversal with a visitor and an expand callback
\* returned three nodes visited at depths 0, 1 and 2, after three visitor
\* calls and three expand calls.
C19_Witness ==
  /\ pc = "returned"
  /\ call.options.visit = VisitAll
  /\ call.options.expand # NoCallback
  /\ Len(VisitCalls) = 3
  /\ VisitCalls[3].depth = 2
  /\ Len(calls) = 6

\* the visitor has returned false
Stopped == \E i \in DOMAIN calls : calls[i].fn = "visit" /\ calls[i].res = "false"

\* C20: a visitor call that returns false is the last callback call of
\* the traversal: bfs has returned, the node of that call is the last
\* element of the output, the nodes left in the queue are not in the
\* output, and every discovered node other than the start was discovered
\* from a node output before it (no neighbor was enqueued from the node
\* that stopped the traversal). A traversal whose visitor returned only
\* true or nothing goes on until the queue is exhausted: its output holds
\* every neighbor of every output node that is neither at maxDepth nor a
\* barrier.
C20_EarlyStop ==
  /\ \A i \in DOMAIN calls :
       (calls[i].fn = "visit" /\ calls[i].res = "false") =>
         /\ i = Len(calls)
         /\ pc = "returned"
         /\ order[Len(order)] = calls[i].node
         /\ \A k \in DOMAIN queue, j \in DOMAIN order :
              queue[k].node # order[j]
         /\ \A m \in visited \ {call.start} :
              \E j \in 1..(Len(order) - 1) : <<order[j], m>> \in edges
  /\ (pc = "returned" /\ call.options.visit # NoCallback /\ ~Stopped) =>
       /\ queue = <<>>
       /\ Len(VisitCalls) = Len(order)
       /\ \A i \in DOMAIN VisitCalls, m \in NodeIds :
            (Expands(i) /\ <<VisitCalls[i].node, m>> \in edges) =>
              \E j \in DOMAIN order : order[j] = m
  /\ (pc \in {"expand", "while"} /\ calls # <<>>) => ~Stopped

\* C20 witness: the visitor returned nothing at the start node and false
\* at the second node, and bfs returned these two nodes while a third
\* node was still waiting in the queue.
C20_Witness ==
  /\ pc = "returned"
  /\ Len(order) = 2
  /\ Len(calls) = 2
  /\ calls[1].fn = "visit" /\ calls[1].res = "undefined"
  /\ calls[2].fn = "visit" /\ calls[2].res = "false"
  /\ queue # <<>>

\* expand, if supplied, returns false for node n
Barrier(n) ==
  /\ call.options.expand # NoCallback
  /\ ~ExpandResult(call.options.expand, n, 0)

RECURSIVE Unblocked(_, _)
\* the nodes reached from the set found in at most k steps along edges
\* that leave a node which is not a barrier
Unblocked(found, k) ==
  IF k = 0 THEN found
  ELSE Unblocked(found \cup {p[2] : p \in {q \in edges :
                                            q[1] \in found /\ ~Barrier(q[1])}},
                 k - 1)

\* C21: a node for which expand returned false is in the output, and no
\* node is enqueued on its account: every discovered node other than the
\* start has an edge from an output node that is not a barrier, so every
\* discovered node is reachable from the start along edges that leave
\* non-barrier nodes only.
C21_BarrierBlocks ==
  pc \notin {"idle", "thrown"} =>
    /\ \A i \in DOMAIN calls :
         (calls[i].fn = "expand" /\ calls[i].res = "false") =>
           \E j \in DOMAIN order : order[j] = calls[i].node
    /\ \A m \in visited \ {call.start} :
         \E j \in DOMAIN order :
           ~Barrier(order[j]) /\ <<order[j], m>> \in edges
    /\ visited \subseteq Unblocked({call.start}, Cardinality(NodeIds))

\* C21 witness: bfs returned two of three nodes; the second is a barrier
\* with an edge to the third, which is not in the output.
C21_Witness ==
  /\ pc = "returned"
  /\ Cardinality(nodes) = 3
  /\ Len(order) = 2
  /\ Barrier(order[2])
  /\ calls # <<>> /\ calls[Len(calls)].fn = "expand"
  /\ calls[Len(calls)].res = "false"
  /\ \E m \in NodeIds : m \notin visited /\ <<order[2], m>> \in edges

\* C22 as stated: when bfs has returned, a node for which expand returned
\* false is in the output and none of its adjacency neighbors is.
C22_BarrierNeighborsAbsent ==
  pc = "returned" =>
    \A i \in DOMAIN calls :
      (calls[i].fn = "expand" /\ calls[i].res = "false") =>
        /\ \E j \in DOMAIN order : order[j] = calls[i].node
        /\ \A m \in NodeIds :
             <<calls[i].node, m>> \in edges =>
               \A j \in DOMAIN order : order[j] # m

\* C22 amended: a node n for which expand returned false is in the
\* output, and a neighbor of n is in the output only if it is the start
\* node or has an edge from another output node that precedes it and is
\* not a barrier.
C22_BarrierNeighbors ==
  pc \notin {"idle", "thrown"} =>
    \A i \in DOMAIN calls :
      (calls[i].fn = "expand" /\ calls[i].res = "false") =>
        /\ \E j \in DOMAIN order : order[j] = calls[i].node
        /\ \A k \in DOMAIN order :
             (<<calls[i].node, order[k]>> \in edges /\ order[k] # call.start) =>
               \E j \in 1..(k - 1) :
                 /\ order[j] # calls[i].node
                 /\ ~Barrier(order[j])
                 /\ <<order[j], order[k]>> \in edges

\* C22 witness: bfs returned an output that holds a barrier node and,
\* after it, a neighbor of the barrier that is not the start node.
C22_Witness ==
  /\ pc = "returned"
  /\ Len(order) = 3
  /\ Barrier(order[2])
  /\ \E i \in DOMAIN calls :
       calls[i].fn = "expand" /\ calls[i].res = "false"
         /\ calls[i].node = order[2]
  /\ <<order[2], order[3]>> \in edges

RECURSIVE Within(_, _)
\* the nodes at shortest-path distance at most k from the set found
Within(found, k) ==
  IF k = 0 THEN found
  ELSE Within(found \cup {p[2] : p \in {q \in edges : q[1] \in found}}, k - 1)

\* C23: with maxDepth = k, no expand hook and no early stop, no entry of
\* depth above k is ever enqueued and no node is visited at a depth above
\* k, and the returned output holds exactly the nodes whose shortest-path
\* distance from the start is at most k (the start alone for k = 0); on
\* the chain a->b->c->d from a it is [a, b] for k = 1 and [a, b, c] for
\* k = 2.
C23_MaxDepth ==
  pc \notin {"idle", "thrown"} =>
    LET k == call.options.maxDepth.value
    IN /\ \A i \in DOMAIN queue : queue[i].depth <= k
       /\ \A i \in DOMAIN VisitCalls : VisitCalls[i].depth <= k
       /\ pc = "returned" =>
            /\ {order[j] : j \in DOMAIN order} = Within({call.start}, k)
            /\ k = 0 => order = <<call.start>>
            /\ (edges = Chain /\ call.start = "a" /\ k = 1) =>
                 order = <<"a", "b">>
            /\ (edges = Chain /\ call.start = "a" /\ k = 2) =>
                 order = <<"a", "b", "c">>

\* C23 witness: on the chain a->b->c->d, bfs from a with maxDepth = 2
\* and a visitor returned a, b, c, the last visited at depth 2.
C23_Witness ==
  /\ pc = "returned"
  /\ edges = Chain
  /\ call.start = "a"
  /\ call.options.maxDepth = MaxDepthOf(2)
  /\ order = <<"a", "b", "c">>
  /\ Len(VisitCalls) = 3 /\ VisitCalls[3].depth = 2

\* C24: bfs with a start id string that no node has throws 'Start node
\* not found' naming that id, with no callback called, no output and the
\* graph untouched; with an id that a node has, the call does exactly
\* what the call with that node object does, starting from that node at
\* depth 0.
C24_StartLookup ==
  [][pc = "idle" =>
       /\ \A id \in NodeIds :
            LET byId == bfs([kind |-> "string", id |-> id, node |-> Undefined],
                            call'.options, adjOrder')
                byNode == bfs([kind |-> "node", id |-> id, node |-> Handle(id)],
                              call'.options, adjOrder')
            IN IF findNodeById(id) = Undefined
               THEN byId =>
                      /\ pc' = "thrown"
                      /\ result' = Thrown("bfs", id, "Start node not found")
                      /\ calls' = <<>> /\ order' = <<>> /\ queue' = <<>>
                      /\ UNCHANGED <<nodes, edges>>
               ELSE /\ byId <=> byNode
                    /\ byId =>
                         /\ pc' = "while"
                         /\ queue' = <<[node |-> id, depth |-> 0]>>
                         /\ visited' = {id}
       /\ pc' = "thrown" =>
            /\ result'.op = "bfs"
            /\ result'.error = "Start node not found"
            /\ findNodeById(result'.id) = Undefined]_vars

\* C24 witness: bfs was refused for an id no node has, on a store that
\* holds connected nodes.
C24_Witness ==
  /\ pc = "thrown"
  /\ result = Thrown("bfs", "c", "Start node not found")
  /\ Cardinality(nodes) = 2
  /\ edges # {}
  /\ calls = <<>> /\ order = <<>>

\* C25: the store is chosen at construction: a supplied instance is kept
\* as it is (with what it holds) whether or not a class is supplied too;
\* otherwise a supplied class is instantiated, otherwise a default Network;
\* the field never changes afterwards, and every later operation reads and
\* writes the content of that store
C25_StoreChoice ==
  [][/\ network = NoNetwork =>
          \A networkClass \in ClassInputs, supplied \in InstanceInputs :
            constructor(networkClass, supplied) =>
              /\ supplied # NoNetwork =>
                   network' = supplied /\ UNCHANGED <<nodes, edges>>
              /\ supplied = NoNetwork /\ networkClass # "undefined" =>
                   /\ network' = NewNetwork(networkClass)
                   /\ nodes' = {} /\ edges' = {}
              /\ supplied = NoNetwork /\ networkClass = "undefined" =>
                   /\ network' = NewNetwork("Network")
                   /\ nodes' = {} /\ edges' = {}
     /\ network # NoNetwork =>
          /\ network' = network
          /\ result'.op \in {"createNode", "removeNode", "updateNodeData"}
          /\ result'.op = "createNode" /\ result'.error = "none" =>
               nodes' = nodes \cup {result'.value}
          /\ result'.error # "none" => UNCHANGED <<nodes, edges>>]_vars

\* a manager built on a supplied subclass instance that held node a has
\* linked a node created later to that node
C25_Witness ==
  /\ network = Supplied("CustomNetwork")
  /\ Succeeded("createNode")
  /\ result.id = "b"
  /\ <<"a", "b">> \in edges
  /\ Cardinality(nodes) = 2

\* node n has a rule that may initiate: direction Outgoing or Both, a rule
\* without direction counting as Both
CanInitiate(n) ==
  \E i \in DOMAIN n.rules : n.rules[i].direction \in {Outgoing, Both, NoDirection}

\* node n has a rule that may accept: direction Incoming or Both
CanAccept(n) ==
  \E i \in DOMAIN n.rules : n.rules[i].direction \in {Incoming, Both, NoDirection}

\* every rule of node n has direction dir
Only(n, dir) == \A i \in DOMAIN n.rules : n.rules[i].direction = dir

\* C26: an edge a -> b exists only if a has a rule of direction Outgoing or
\* Both and b has a rule of direction Incoming or Both; so a node without
\* rules has no incident edge, an outgoing-only node has no incoming edge,
\* an incoming-only node has no outgoing edge, and two outgoing-only or two
\* incoming-only nodes are never connected
C26_DirectionNecessary ==
  /\ \A p \in edges :
       /\ \E s \in nodes : s.id = p[1] /\ CanInitiate(s)
       /\ \E t \in nodes : t.id = p[2] /\ CanAccept(t)
  /\ \A n \in nodes :
       /\ n.rules = <<>> =>
            \A p \in edges : p[1] # n.id /\ p[2] # n.id
       /\ Only(n, Outgoing) => \A p \in edges : p[2] # n.id
       /\ Only(n, Incoming) => \A p \in edges : p[1] # n.id
  /\ \A n \in nodes, m \in nodes, dir \in {Outgoing, Incoming} :
       Only(n, dir) /\ Only(m, dir) =>
         <<n.id, m.id>> \notin edges /\ <<m.id, n.id>> \notin edges

\* after an update an outgoing-only node a is linked to b one way only,
\* although a rule of b matches towards a: a cannot accept
C26_Witness ==
  /\ Succeeded("updateNodeData")
  /\ \E a \in nodes, b \in nodes :
       /\ a.id = "a" /\ b.id = "b"
       /\ a.rules # <<>> /\ Only(a, Outgoing)
       /\ edges = {<<"a", "b">>}
       /\ \E j \in DOMAIN b.rules : Initiates(b.rules[j], b, a)

\* the ways to reorder a sequence of n rules, n up to MaxRules
RuleOrders == [n \in 0..MaxRules |-> Permutations(1..n)]

\* the rule sequences that hold the rules of sequence rs in some order
Reorderings(rs) ==
  { [i \in DOMAIN rs |-> rs[f[i]]] : f \in RuleOrders[Len(rs)] }

\* node n with its rules replaced by rs
WithRules(n, rs) == [n EXCEPT !.rules = rs]

\* C27: the handshake result does not depend on the order of the rules of
\* the source or of the target, for any two stored nodes and in both
\* directions, although the loops stop at the first satisfying pair
C27_OrderIndependent ==
  \A s \in nodes : \A t \in nodes \ {s} :
    LET found == tryHandshake(s, t)
    IN \A rs \in Reorderings(s.rules), rt \in Reorderings(t.rules) :
         tryHandshake(WithRules(s, rs), WithRules(t, rt)) = found

\* after an update, a is linked to b by the second rule of each, the first
\* rule of a not initiating and the first rule of b not accepting
C27_Witness ==
  /\ Succeeded("updateNodeData")
  /\ \E a \in nodes, b \in nodes :
       /\ Len(a.rules) = 2 /\ Len(b.rules) = 2
       /\ ~Initiates(a.rules[1], a, b) /\ Initiates(a.rules[2], a, b)
       /\ ~Accepts(b.rules[1], b, a) /\ Accepts(b.rules[2], b, a)
       /\ <<a.id, b.id>> \in edges
       /\ tryHandshake(a, b)

\* C28: createNode leaves every pair of nodes that existed before the call
\* as it was: no edge is removed, every added edge has the new node as an
\* endpoint, and a call that throws changes no edge
C28_CreateFrame ==
  [][result'.op = "createNode" =>
       /\ edges \subseteq edges'
       /\ \A p \in edges' \ edges : p[1] = result'.id \/ p[2] = result'.id
       /\ \A x \in nodes, y \in nodes :
            <<x.id, y.id>> \in edges' <=> <<x.id, y.id>> \in edges
       /\ result'.error # "none" => edges' = edges]_vars

\* a node was created and linked both ways to an existing node x, while the
\* one-way edge from x to a third node stayed one-way, unjustified as it is
\* by the present data
C28_Witness ==
  /\ Succeeded("createNode")
  /\ \E x \in nodes, o \in nodes :
       /\ x.id # result.id /\ o.id # result.id /\ x # o
       /\ <<result.id, x.id>> \in edges /\ <<x.id, result.id>> \in edges
       /\ <<x.id, o.id>> \in edges /\ <<o.id, x.id>> \notin edges
       /\ ~Justified(x, o)

\* the edges of e between two nodes other than id
Apart(e, id) == {p \in e : p[1] # id /\ p[2] # id}

\* C29: updateNodeData(id, newData) changes nothing but the data of node
\* id and edges with id as an endpoint: the same ids are stored, every
\* other node keeps its data and rules, node id keeps its rules, the edges
\* between two other nodes are the same, and a throwing call changes
\* nothing
C29_UpdateFrame ==
  [][result'.op = "updateNodeData" =>
       LET id == result'.id
       IN /\ {n.id : n \in nodes'} = {n.id : n \in nodes}
          /\ \A n \in nodes : n.id # id => n \in nodes'
          /\ \A n \in nodes, m \in nodes' :
               n.id = id /\ m.id = id => m.rules = n.rules
          /\ Apart(edges', id) = Apart(edges, id)
          /\ result'.error # "none" => UNCHANGED <<nodes, edges>>]_vars

\* an update has linked its node to a second node, and an edge between
\* that node and a third one, which the present data does not justify,
\* is still there
C29_Witness ==
  /\ Succeeded("updateNodeData")
  /\ \E n \in nodes, o \in nodes, q \in nodes :
       /\ n.id = result.id /\ o # n /\ q # n /\ o # q
       /\ <<n.id, o.id>> \in edges /\ <<o.id, n.id>> \in edges
       /\ <<o.id, q.id>> \in edges /\ ~Justified(o, q)

\* C30: bfs only reads the graph: every step of a call, from the start
\* lookup to the return, the early stop or the thrown error, leaves the
\* stored nodes (ids, data, rules) and the edge set as they were, so they
\* are the same after the call as before it
C30_BfsReadOnly ==
  [][/\ nodes' = nodes
     /\ edges' = edges
     /\ pc' = "thrown" => pc = "idle" /\ result'.op = "bfs"
     /\ pc' # "thrown" => result' = result]_vars

\* a call on a graph of three nodes has ended by an early stop at its
\* third visit, after expanding nodes and with a node still queued
C30_Witness ==
  /\ pc = "returned"
  /\ Stopped
  /\ Len(order) = 3
  /\ Cardinality(nodes) = 3
  /\ Cardinality(edges) >= 3
  /\ \E i \in DOMAIN calls : calls[i].fn = "expand" /\ calls[i].res = "true"

\* C31 as stated: a call that has begun reaches its return, and at no
\* point has it dequeued more entries than the graph has nodes
C31_TerminatesWithinNodes ==
  /\ [](Len(order) <= Cardinality(nodes))
  /\ [](pc \in {"while", "visit", "expand"} => <>(pc = "returned"))

\* C31 amended: bfs terminates on every graph, cycles and two-way edges
\* included, and with every combination of options: a call that has begun
\* reaches its return, by an empty queue or an early stop; a call whose
\* start is a node of the graph never dequeues more entries than the graph
\* has nodes, and a call started from a node object that the graph does
\* not hold dequeues that one entry only
C31_Terminates ==
  /\ [](IF findNodeById(call.start) # Undefined
        THEN Len(order) <= Cardinality(nodes)
        ELSE Len(order) <= 1 /\ Len(queue) <= 1 - Len(order))
  /\ [](pc \in {"while", "visit", "expand"} => <>(pc = "returned"))

\* a call over a three-node cycle with a two-way edge has returned with an
\* empty queue after dequeuing every node once
C31_Witness ==
  /\ pc = "returned"
  /\ queue = <<>>
  /\ Len(order) = 3
  /\ {<<"a", "b">>, <<"b", "a">>, <<"b", "c">>, <<"c", "a">>} \subseteq edges
  /\ ~Stopped

RECURSIVE Near(_, _)
\* the ids at most k directed edges away from start
Near(start, k) ==
  IF k = 0 THEN {start}
  ELSE LET prev == Near(start, k - 1)
       IN prev \cup {p[2] : p \in {q \in edges : q[1] \in prev}}

\* the ids reachable from start along directed edges
Reachable(start) == Near(start, Cardinality(nodes))

\* the length of a shortest directed path from start to a reachable id
Distance(start, id) ==
  CHOOSE k \in 0..Cardinality(nodes) :
    id \in Near(start, k) /\ (k = 0 \/ id \notin Near(start, k - 1))

\* the call has neither an expand hook nor a maxDepth
Unrestricted ==
  /\ pc \in {"while", "visit", "expand", "returned"}
  /\ call.options.expand = NoCallback
  /\ call.options.maxDepth = NoMaxDepth

\* C32: without expand hook, maxDepth and early stop, the nodes of the
\* returned output are exactly the nodes reachable from the start along
\* directed edges, and every depth passed to visit is the node's
\* shortest-path distance from the start
C32_ReachableExactly ==
  Unrestricted /\ ~Stopped =>
    /\ \A i \in DOMAIN order : order[i] \in Reachable(call.start)
    /\ pc = "returned" =>
         {order[i] : i \in DOMAIN order} = Reachable(call.start)
    /\ \A i \in DOMAIN calls :
         calls[i].fn = "visit" =>
           calls[i].depth = Distance(call.start, calls[i].node)

\* a full traversal from a has returned a and b, both visited, b at depth
\* 1; c, which has edges to a and b but none from them, is left out
C32_Witness ==
  /\ pc = "returned"
  /\ Unrestricted
  /\ call.start = "a"
  /\ edges = {<<"a", "b">>, <<"c", "a">>, <<"c", "b">>}
  /\ order = <<"a", "b">>
  /\ Len(calls) = 2 /\ calls[2].depth = 1 /\ calls[2].res # "false"

\* C33: in every state reached by createNode, removeNode, updateNodeData
\* and direct data replacement, no edge leads from a node to itself and
\* both endpoints of every edge are ids of stored nodes
C33_NoLoopNoDangling ==
  \A p \in edges :
    /\ p[1] # p[2]
    /\ \E n \in nodes : n.id = p[1]
    /\ \E n \in nodes : n.id = p[2]

\* an update has recalculated a node whose rule matches the node itself,
\* next to one other node: it is linked both ways to that node and has no
\* edge to itself
C33_Witness ==
  /\ Succeeded("updateNodeData")
  /\ Cardinality(nodes) = 2
  /\ \E n \in nodes, o \in nodes :
       /\ n.id = result.id /\ o # n
       /\ n.rules = <<universalRule>> /\ tryHandshake(n, n)
       /\ edges = {<<n.id, o.id>>, <<o.id, n.id>>}

\* the stored nodes with the given id
Holding(ns, id) == {n \in ns : n.id = id}

\* C34: after every manager operation no two stored nodes share an id and
\* none has an empty id; getNode(id) changes nothing and returns the one
\* stored node with that id, or not-found when there is none; createNode
\* of an id that is absent, as it is after removeNode(id), succeeds, and
\* the edges of the new node are exactly those its handshakes with the
\* stored nodes justify, the edges among the other nodes being kept
C34_UniqueIds ==
  [][/\ \A n \in nodes' : n.id # EmptyId /\ Holding(nodes', n.id) = {n}
     /\ result'.op = "getNode" =>
          /\ UNCHANGED <<nodes, edges>>
          /\ IF Holding(nodes, result'.id) = {}
             THEN result'.value = Undefined
             ELSE Holding(nodes, result'.id) = {result'.value}
     /\ (Succeeded("removeNode") /\ result'.op = "createNode"
           /\ result'.id = result.id /\ result.id # EmptyId) =>
          /\ result'.error = "none"
          /\ Holding(nodes', result.id) = {result'.value}
          /\ \A o \in nodes :
               /\ <<result.id, o.id>> \in edges' <=> Justified(result'.value, o)
               /\ <<o.id, result.id>> \in edges' <=> Justified(o, result'.value)
          /\ Apart(edges', result.id) = edges]_vars

\* an id was created again with an empty rule list: its node has no edge,
\* while the two other nodes, each able to link to a node with a matching
\* rule, are linked both ways
C34_Witness ==
  /\ Succeeded("createNode")
  /\ result.value.rules = <<>>
  /\ Cardinality(nodes) = 3
  /\ \A p \in edges : p[1] # result.id /\ p[2] # result.id
  /\ \E o \in nodes, q \in nodes :
       /\ o # q /\ o.rules = <<universalRule>> /\ q.rules = <<universalRule>>
       /\ {<<o.id, q.id>>, <<q.id, o.id>>} = edges

RECURSIVE NearIn(_, _, _)
\* the ids at most k edges of e away from start
NearIn(e, start, k) ==
  IF k = 0 THEN {start}
  ELSE LET prev == NearIn(e, start, k - 1)
       IN prev \cup {p[2] : p \in {q \in e : q[1] \in prev}}

\* C35: a bfs started from a remaining node after removeNode(id), whatever
\* manager operations came before, never holds the removed id in its
\* visited set, queue or output, and every node of its output is reachable
\* from the start by edges that do not touch the removed id
C35_RemovedUnreachable ==
  pc # "idle" =>
    /\ result.op = "removeNode"
    /\ findNode(result.id) = Undefined
    /\ result.id \notin visited
    /\ \A i \in DOMAIN queue : queue[i].node # result.id
    /\ \A i \in DOMAIN order :
         /\ order[i] # result.id
         /\ order[i] \in NearIn(Apart(edges, result.id), call.start,
                                Cardinality(nodes))
    /\ \A i \in DOMAIN calls : calls[i].node # result.id

\* after the removal of a stored node a traversal from one of the two
\* remaining nodes has returned both of them
C35_Witness ==
  /\ pc = "returned"
  /\ Succeeded("removeNode")
  /\ result.id \in NodeIds
  /\ Cardinality(nodes) = 2
  /\ Len(order) = 2
  /\ Len(calls) = 2

====
